---- MODULE Spec2Model ----
(***************************************************************************)
(* Smart Railway Track Inspection API (src/main.py).                       *)
(*                                                                         *)
(* The document store is the record db with one field per collection.      *)
(* A collection is a function from document ids to documents, a document   *)
(* is a record.  Section ids are handed out by nextId and never reused     *)
(* (ObjectId); inspections and alerts are never deleted, so their ids are  *)
(* 1..n and the collections are sequences in insertion order.              *)
(*                                                                         *)
(* Every handler is an operator from the store and the request to the      *)
(* store afterwards and the HTTP response.  Spec serves one request at a   *)
(* time, each handler run to completion; SpecRace, SpecStale and SpecCount *)
(* run the handlers one store operation at a time, interleaved.            *)
(***************************************************************************)
EXTENDS Integers, Sequences, FiniteSets, TLC

VARIABLES db, nextId, clock, last, pre, calls

vars == <<db, nextId, clock, last, pre, calls>>

----------------------------------------------------------------------------
(* Bounds of the model *)

MaxSections == 2
MaxInspections == 3
MaxClock == 4
MaxSeedSections == 3
MaxSeedMarks == 4
MaxCalls == 2
MaxRaceSeedMarks == 1
MaxSummaries == 1

(* Program constants *)

CriticalThreshold == 3
DefaultColorSafe == "#16a34a"
DefaultColorFaulty == "#dc2626"

----------------------------------------------------------------------------
(* Python values *)

None == << >>
Some(x) == <<x>>

(* datetime.isoformat(): a text, not the datetime itself *)
isoformat(t) == <<"iso", t>>

(* dict.get(key, default) *)
Get(doc, key, default) == IF key \in DOMAIN doc THEN doc[key] ELSE default

(* str(ObjectId): the request carries the id as text; InvalidId is a text   *)
(* that ObjectId.is_valid rejects                                           *)
InvalidId == 0
RequestIds == 0..MaxSections
AlertRequestIds == 0..MaxInspections

Statuses == {"safe", "faulty"}
Details == {None, Some("gap 4mm")}

SectionCreate == [name : {"S1"}, color_safe : {DefaultColorSafe}, color_faulty : {DefaultColorFaulty}]

SectionUpdate ==
    [name : {None, Some("S2")},
     status : {None} \cup {Some(s) : s \in Statuses},
     color_safe : {None},
     color_faulty : {None, Some(DefaultColorSafe)}]

MarkPayload == [status : Statuses]

InspectPayload == [section_id : RequestIds, status : Statuses, detail : Details]

(* HTTPException(status_code, detail) *)
HTTPException(d, status_code, detail) ==
    [db |-> d, code |-> status_code, body |-> [detail |-> detail]]

Response(d, status_code, body) ==
    [db |-> d, code |-> status_code, body |-> body]

----------------------------------------------------------------------------
(* The document store (pymongo collections) *)

EmptyDb == [tracksection |-> << >>, inspection |-> << >>, alert |-> << >>]

(* oid(): ObjectId.is_valid *)
is_valid(id_str) == id_str # InvalidId

(* faulty variant: the filter is dropped, any document of the collection matches *)
find_one_any(coll, id) ==
    IF DOMAIN coll # {} THEN Some(coll[CHOOSE k \in DOMAIN coll : TRUE]) ELSE None

(* collection.find_one({"_id": id}) *)
find_one(coll, id) == IF id \in DOMAIN coll THEN Some(coll[id]) ELSE None

(* collection.insert_one(doc) with a fresh id *)
insert_one(coll, id, doc) == coll @@ (id :> doc)

(* {"$set": updates} applied to one document *)
set_fields(doc, updates) == updates @@ doc

(* faulty variant: upsert=True, a missing document is created from the updates *)
update_one_upsert(coll, id, updates) ==
    IF id \in DOMAIN coll
    THEN [coll |-> [coll EXCEPT ![id] = set_fields(coll[id], updates)], matched_count |-> 1]
    ELSE [coll |-> coll @@ (id :> updates), matched_count |-> 0]

(* collection.update_one({"_id": id}, {"$set": updates}) *)
update_one(coll, id, updates) ==
    IF id \in DOMAIN coll
    THEN [coll |-> [coll EXCEPT ![id] = set_fields(coll[id], updates)], matched_count |-> 1]
    ELSE [coll |-> coll, matched_count |-> 0]

(* collection.delete_one({"_id": id}) *)
delete_one(coll, id) ==
    IF id \in DOMAIN coll
    THEN [coll |-> [k \in DOMAIN coll \ {id} |-> coll[k]], deleted_count |-> 1]
    ELSE [coll |-> coll, deleted_count |-> 0]

(* a query filter: each field it names must be present in the document and  *)
(* equal the given value, or be at least the value under {"$gte": value}    *)
matches(doc, filter) ==
    \A f \in DOMAIN filter :
        /\ f \in DOMAIN doc
        /\ IF filter[f].op = "$gte" THEN doc[f] >= filter[f].value
                                    ELSE doc[f] = filter[f].value

(* collection.count_documents(filter) *)
count_documents(coll, filter) == Cardinality({k \in DOMAIN coll : matches(coll[k], filter)})

(* s["id"] = str(s.pop("_id")) *)
with_id(doc, id) == [id |-> id] @@ doc

(* the id insert_one gives the next document of an append-only collection *)
new_id(coll) == Cardinality(DOMAIN coll) + 1

----------------------------------------------------------------------------
(* POST /api/sections *)

create_section(d, inserted_id, payload, now) ==
    LET doc == [name |-> payload.name,
                status |-> "safe",
                color_safe |-> payload.color_safe,
                color_faulty |-> payload.color_faulty,
                last_check |-> None,
                persistent_faults |-> 0,
                created_at |-> now,
                updated_at |-> now]
    IN Response([d EXCEPT !.tracksection = insert_one(@, inserted_id, doc)],
                201, with_id(doc, inserted_id))

(* PATCH /api/sections/{section_id} *)

(* payload.model_dump(exclude_none=True) *)
model_dump(payload) ==
    [k \in {f \in DOMAIN payload : payload[f] # None} |-> payload[k][1]]

(* faulty variant: the patch also stamps last_check, as an observation does *)
stamp_last_check(updates, now) ==
    [updated_at |-> now, last_check |-> Some(isoformat(now))] @@ updates

(* updates["updated_at"] = datetime.now(timezone.utc) *)
stamp(updates, now) == [updated_at |-> now] @@ updates

update_section(d, section_id, payload, now) ==
    LET updates == model_dump(payload)
        stamped == stamp(updates, now)
        result == update_one(d.tracksection, section_id, stamped)
        after == [d EXCEPT !.tracksection = result.coll]
    IN IF DOMAIN updates = {} THEN Response(d, 200, [updated |-> FALSE])
       ELSE IF ~is_valid(section_id) THEN HTTPException(d, 400, "Invalid id")
       ELSE IF result.matched_count = 0 THEN HTTPException(after, 404, "Section not found")
       ELSE Response(after, 200, with_id(find_one(after.tracksection, section_id)[1], section_id))

(* DELETE /api/sections/{section_id} *)

(* faulty variant: the delete cascades to the inspections and alerts of the section *)
delete_section_cascade(d, section_id) ==
    LET result == delete_one(d.tracksection, section_id)
        kept(coll) == [k \in {j \in DOMAIN coll : coll[j].section_id # section_id} |-> coll[k]]
        after == [tracksection |-> result.coll,
                  inspection |-> kept(d.inspection),
                  alert |-> kept(d.alert)]
    IN IF ~is_valid(section_id) THEN HTTPException(d, 400, "Invalid id")
       ELSE IF result.deleted_count = 0 THEN HTTPException(after, 404, "Section not found")
       ELSE Response(after, 200, [deleted |-> TRUE])

delete_section(d, section_id) ==
    LET result == delete_one(d.tracksection, section_id)
        after == [d EXCEPT !.tracksection = result.coll]
    IN IF ~is_valid(section_id) THEN HTTPException(d, 400, "Invalid id")
       ELSE IF result.deleted_count = 0 THEN HTTPException(after, 404, "Section not found")
       ELSE Response(after, 200, [deleted |-> TRUE])

----------------------------------------------------------------------------
(* POST /api/sections/{section_id}/mark *)

(* faulty variant: a safe observation clears the fault counter *)
mark_updates_reset(section, payload, now, last_check) ==
    LET is_repeat_fault == Get(section, "status", None) = "faulty" /\ payload.status = "faulty"
        updates == [status |-> payload.status,
                    last_check |-> Some(isoformat(last_check)),
                    updated_at |-> now]
    IN IF is_repeat_fault
       THEN [persistent_faults |-> Get(section, "persistent_faults", 0) + 1] @@ updates
       ELSE IF payload.status = "safe" THEN [persistent_faults |-> 0] @@ updates
       ELSE updates

(* faulty variant: every faulty observation counts, whatever the section's status was *)
mark_updates_every_fault(section, payload, now, last_check) ==
    LET updates == [status |-> payload.status,
                    last_check |-> Some(isoformat(last_check)),
                    updated_at |-> now]
    IN IF payload.status = "faulty"
       THEN [persistent_faults |-> Get(section, "persistent_faults", 0) + 1] @@ updates
       ELSE updates

mark_updates(section, payload, now, last_check) ==
    LET is_repeat_fault == Get(section, "status", None) = "faulty" /\ payload.status = "faulty"
        updates == [status |-> payload.status,
                    last_check |-> Some(isoformat(last_check)),
                    updated_at |-> now]
    IN IF is_repeat_fault
       THEN [persistent_faults |-> Get(section, "persistent_faults", 0) + 1] @@ updates
       ELSE updates

mark_inspection(section_id, payload, now, inspected_at) ==
    [section_id |-> section_id,
     status |-> payload.status,
     detail |-> Some("manual-mark"),
     inspected_at |-> isoformat(inspected_at),
     created_at |-> now]

(* faulty variant: the alert is raised whatever the observed status *)
mark_alerts_always(section_id, section, payload, now) ==
    <<[section_id |-> section_id,
       message |-> <<"Fault detected at section ", Get(section, "name", ""), ".">>,
       severity |-> "high",
       acknowledged |-> FALSE,
       created_at |-> now]>>

mark_alerts(section_id, section, payload, now) ==
    IF payload.status = "faulty"
    THEN <<[section_id |-> section_id,
            message |-> <<"Fault detected at section ", Get(section, "name", ""), ".">>,
            severity |-> "high",
            acknowledged |-> FALSE,
            created_at |-> now]>>
    ELSE << >>

(* insert_one of each document of a list of at most one *)
insert_all(coll, docs) ==
    IF docs = << >> THEN coll ELSE insert_one(coll, new_id(coll), docs[1])

(* faulty variant: a safe mark resolves the open alerts of the section *)
mark_section_resolves(d, section_id, payload, now, last_check, inspected_at) ==
    LET found == find_one(d.tracksection, section_id)
        section == found[1]
        updates == mark_updates(section, payload, now, last_check)
        result == update_one(d.tracksection, section_id, updates)
        insp == mark_inspection(section_id, payload, now, inspected_at)
        resolved == [k \in DOMAIN d.alert |->
                        IF payload.status = "safe" /\ d.alert[k].section_id = section_id
                        THEN set_fields(d.alert[k], [acknowledged |-> TRUE])
                        ELSE d.alert[k]]
        after == [tracksection |-> result.coll,
                  inspection |-> insert_one(d.inspection, new_id(d.inspection), insp),
                  alert |-> insert_all(resolved, mark_alerts(section_id, section, payload, now))]
    IN IF ~is_valid(section_id) THEN HTTPException(d, 400, "Invalid id")
       ELSE IF found = None THEN HTTPException(d, 404, "Section not found")
       ELSE Response(after, 200, with_id(find_one(after.tracksection, section_id)[1], section_id))

mark_section(d, section_id, payload, now, last_check, inspected_at) ==
    LET found == find_one(d.tracksection, section_id)
        section == found[1]
        updates == mark_updates(section, payload, now, last_check)
        result == update_one(d.tracksection, section_id, updates)
        insp == mark_inspection(section_id, payload, now, inspected_at)
        after == [tracksection |-> result.coll,
                  inspection |-> insert_one(d.inspection, new_id(d.inspection), insp),
                  alert |-> insert_all(d.alert, mark_alerts(section_id, section, payload, now))]
    IN IF ~is_valid(section_id) THEN HTTPException(d, 400, "Invalid id")
       ELSE IF found = None THEN HTTPException(d, 404, "Section not found")
       ELSE Response(after, 200, with_id(find_one(after.tracksection, section_id)[1], section_id))

----------------------------------------------------------------------------
(* POST /api/inspect *)

(* faulty variant: the record is filed as a fault whatever was observed *)
inspect_inspection_faulty(payload, now) ==
    [section_id |-> payload.section_id,
     status |-> "faulty",
     detail |-> payload.detail,
     inspected_at |-> isoformat(now),
     created_at |-> now]

inspect_inspection(payload, now) ==
    [section_id |-> payload.section_id,
     status |-> payload.status,
     detail |-> payload.detail,
     inspected_at |-> isoformat(now),
     created_at |-> now]

(* faulty variant: a safe inspection clears the fault counter *)
inspect_updates_reset(section, payload, now) ==
    LET is_repeat_fault == Get(section, "status", None) = "faulty" /\ payload.status = "faulty"
        updates == [status |-> payload.status,
                    last_check |-> Some(isoformat(now)),
                    updated_at |-> now]
    IN IF is_repeat_fault
       THEN [persistent_faults |-> Get(section, "persistent_faults", 0) + 1] @@ updates
       ELSE [persistent_faults |-> 0] @@ updates

(* faulty variant: every faulty inspection counts, whatever the section's status was *)
inspect_updates_every_fault(section, payload, now) ==
    LET updates == [status |-> payload.status,
                    last_check |-> Some(isoformat(now)),
                    updated_at |-> now]
    IN IF payload.status = "faulty"
       THEN [persistent_faults |-> Get(section, "persistent_faults", 0) + 1] @@ updates
       ELSE updates

inspect_updates(section, payload, now) ==
    LET is_repeat_fault == Get(section, "status", None) = "faulty" /\ payload.status = "faulty"
        updates == [status |-> payload.status,
                    last_check |-> Some(isoformat(now)),
                    updated_at |-> now]
    IN IF is_repeat_fault
       THEN [persistent_faults |-> Get(section, "persistent_faults", 0) + 1] @@ updates
       ELSE updates

inspect_alerts(section, payload, now) ==
    IF payload.status = "faulty"
    THEN <<[section_id |-> payload.section_id,
            message |-> <<"Fault detected at section ", Get(section, "name", ""), " (auto)">>,
            severity |-> "high",
            acknowledged |-> FALSE,
            created_at |-> now]>>
    ELSE << >>

inspect(d, payload, now) ==
    LET found == find_one(d.tracksection, payload.section_id)
        section == found[1]
        insp == inspect_inspection(payload, now)
        updates == inspect_updates(section, payload, now)
        after == [tracksection |-> update_one(d.tracksection, payload.section_id, updates).coll,
                  inspection |-> insert_one(d.inspection, new_id(d.inspection), insp),
                  alert |-> insert_all(d.alert, inspect_alerts(section, payload, now))]
    IN IF ~is_valid(payload.section_id) THEN HTTPException(d, 400, "Invalid id")
       ELSE IF found = None THEN HTTPException(d, 404, "Section not found")
       ELSE Response(after, 201, [created |-> TRUE])

----------------------------------------------------------------------------
(* POST /api/alerts/ack/{alert_id} *)

ack_updates == [acknowledged |-> TRUE]

(* faulty variant: update_many, every alert is acknowledged once the id matches *)
ack_alert_all(d, alert_id) ==
    LET result == update_one(d.alert, alert_id, ack_updates)
        after == [d EXCEPT !.alert = [k \in DOMAIN d.alert |-> set_fields(d.alert[k], ack_updates)]]
    IN IF ~is_valid(alert_id) THEN HTTPException(d, 400, "Invalid id")
       ELSE IF result.matched_count = 0 THEN HTTPException(d, 404, "Alert not found")
       ELSE Response(after, 200, [acknowledged |-> TRUE])

ack_alert(d, alert_id) ==
    LET result == update_one(d.alert, alert_id, ack_updates)
        after == [d EXCEPT !.alert = result.coll]
    IN IF ~is_valid(alert_id) THEN HTTPException(d, 400, "Invalid id")
       ELSE IF result.matched_count = 0 THEN HTTPException(after, 404, "Alert not found")
       ELSE Response(after, 200, [acknowledged |-> TRUE])

(* GET /api/summary *)

(* faulty variant: only sections that are faulty now count as critical *)
summary_critical_now(d) ==
    Response(d, 200,
        [total |-> count_documents(d.tracksection, << >>),
         safe |-> count_documents(d.tracksection, [status |-> [op |-> "$eq", value |-> "safe"]]),
         faulty |-> count_documents(d.tracksection, [status |-> [op |-> "$eq", value |-> "faulty"]]),
         critical |-> count_documents(d.tracksection,
                         [status |-> [op |-> "$eq", value |-> "faulty"],
                          persistent_faults |-> [op |-> "$gte", value |-> CriticalThreshold]])])

summary(d) ==
    Response(d, 200,
        [total |-> count_documents(d.tracksection, << >>),
         safe |-> count_documents(d.tracksection, [status |-> [op |-> "$eq", value |-> "safe"]]),
         faulty |-> count_documents(d.tracksection, [status |-> [op |-> "$eq", value |-> "faulty"]]),
         critical |-> count_documents(d.tracksection,
                         [persistent_faults |-> [op |-> "$gte", value |-> CriticalThreshold]])])

----------------------------------------------------------------------------
(* The service: one request at a time, each handler run to completion.     *)
(* last is the request just served with its response, pre the store as it  *)
(* was when that request arrived.  clock is datetime.now(): a handler runs *)
(* within one tick, and the clock has moved on by one tick when the next   *)
(* request arrives, so clock also counts the requests served.  calls, the  *)
(* requests in flight, stays empty here.                                   *)

Init ==
    /\ db = EmptyDb
    /\ nextId = 1
    /\ clock = 0
    /\ last = [op |-> "none", id |-> InvalidId, payload |-> << >>, code |-> 0, body |-> << >>]
    /\ pre = EmptyDb
    /\ calls = << >>

Served(op, id, payload, r) ==
    /\ clock < MaxClock
    /\ clock' = clock + 1
    /\ db' = r.db
    /\ pre' = db
    /\ last' = [op |-> op, id |-> id, payload |-> payload, code |-> r.code, body |-> r.body]
    /\ UNCHANGED calls

CreateSection ==
    /\ nextId <= MaxSections
    /\ \E payload \in SectionCreate :
         Served("create_section", nextId, payload, create_section(db, nextId, payload, clock))
    /\ nextId' = nextId + 1

UpdateSection ==
    /\ \E section_id \in RequestIds, payload \in SectionUpdate :
         Served("update_section", section_id, payload,
                update_section(db, section_id, payload, clock))
    /\ UNCHANGED nextId

DeleteSection ==
    /\ \E section_id \in RequestIds :
         Served("delete_section", section_id, << >>, delete_section(db, section_id))
    /\ UNCHANGED nextId

MarkSection ==
    /\ \E section_id \in RequestIds, payload \in MarkPayload :
         LET r == mark_section(db, section_id, payload, clock, clock, clock)
         IN /\ Cardinality(DOMAIN r.db.inspection) <= MaxInspections
            /\ Served("mark_section", section_id, payload, r)
    /\ UNCHANGED nextId

Inspect ==
    /\ \E payload \in InspectPayload :
         LET r == inspect(db, payload, clock)
         IN /\ Cardinality(DOMAIN r.db.inspection) <= MaxInspections
            /\ Served("inspect", payload.section_id, payload, r)
    /\ UNCHANGED nextId

AckAlert ==
    /\ \E alert_id \in AlertRequestIds :
         Served("ack_alert", alert_id, << >>, ack_alert(db, alert_id))
    /\ UNCHANGED nextId

Summary ==
    /\ Served("summary", InvalidId, << >>, summary(db))
    /\ UNCHANGED nextId

Next ==
    \/ CreateSection
    \/ UpdateSection
    \/ DeleteSection
    \/ MarkSection
    \/ Inspect
    \/ AckAlert
    \/ Summary

Spec == Init /\ [][Next]_vars

----------------------------------------------------------------------------
(* summary() on populated stores.  The store is the one left by a run of   *)
(* the handlers that ended as the clock reached 0: sections created one    *)
(* after the other, each then marked faulty a number of times and, for     *)
(* some, marked safe at the end, one request per tick.                     *)

SeedPlans == [faulty : 0..MaxSeedMarks, safe : BOOLEAN]

(* the requests of the plans of the first n sections *)
RECURSIVE seed_calls(_, _)
seed_calls(plans, n) ==
    IF n = 0 THEN 0
    ELSE seed_calls(plans, n - 1) + 1 + plans[n].faulty + (IF plans[n].safe THEN 1 ELSE 0)

RECURSIVE mark_times(_, _, _, _, _)
mark_times(d, section_id, status, n, now) ==
    IF n = 0 THEN d
    ELSE mark_times(mark_section(d, section_id, [status |-> status], now, now, now).db,
                    section_id, status, n - 1, now + 1)

RECURSIVE seeded(_, _, _)
seeded(plans, n, start) ==
    IF n = 0 THEN EmptyDb
    ELSE LET payload == [name |-> "S1", color_safe |-> DefaultColorSafe,
                         color_faulty |-> DefaultColorFaulty]
             now == start + seed_calls(plans, n - 1)
             created == create_section(seeded(plans, n - 1, start), n, payload, now).db
             marked == mark_times(created, n, "faulty", plans[n].faulty, now + 1)
         IN IF plans[n].safe
            THEN mark_times(marked, n, "safe", 1, now + 1 + plans[n].faulty)
            ELSE marked

InitSeeded ==
    \E n \in 0..MaxSeedSections : \E plans \in [1..n -> SeedPlans] :
        /\ db = seeded(plans, n, 0 - seed_calls(plans, n))
        /\ pre = seeded(plans, n, 0 - seed_calls(plans, n))
        /\ nextId = n + 1
        /\ clock = 0
        /\ last = [op |-> "none", id |-> InvalidId, payload |-> << >>, code |-> 0, body |-> << >>]
        /\ calls = << >>

NextSummary == Summary

SpecSummary == InitSeeded /\ [][NextSummary]_vars

----------------------------------------------------------------------------
(* Requests in flight.  The handlers are plain def functions, which the    *)
(* server runs on a pool of threads: the store operations of requests in   *)
(* flight interleave.  calls is the list of the requests received, in      *)
(* order of arrival; a request is its handler's frame: the parameters, the *)
(* locals now and section, pc the store operation that is next (named     *)
(* after the call in the source), and the response once pc is "done".      *)
(* A step is one store operation with the local computation up to the     *)
(* next one; datetime.now() reads the clock at the step it is called in.   *)

Call(op, id, payload, pc, now, section, code, body) ==
    [op |-> op, id |-> id, payload |-> payload, pc |-> pc, now |-> now,
     section |-> section, code |-> code, body |-> body]

(* the handler returns or raises: the response is sent *)
Return(call, code, body) == [call EXCEPT !.pc = "done", !.code = code, !.body = body]

(* an uncaught exception of the handler: 500 Internal Server Error *)
Crash(call) == Return(call, 500, "Internal Server Error")

Goto(call, pc) == [call EXCEPT !.pc = pc]

Step(d, call) == [db |-> d, call |-> call]

(* mark_section, lines 138-141: now, section = find_one(...), 404 if None *)
mark_find_one(d, section_id, payload, now) ==
    LET found == find_one(d.tracksection, section_id)
        call == Call("mark_section", section_id, payload, "update_one", now, found, 0, << >>)
    IN IF ~is_valid(section_id) THEN Step(d, Return(call, 400, "Invalid id"))
       ELSE IF found = None THEN Step(d, Return(call, 404, "Section not found"))
       ELSE Step(d, call)

(* faulty variant: $inc, the counter is raised from the stored value *)
mark_update_one_inc(d, call, now) ==
    LET stored == find_one(d.tracksection, call.id)
        section == IF stored = None THEN call.section[1] ELSE stored[1]
        updates == mark_updates(section, call.payload, call.now, now)
    IN Step([d EXCEPT !.tracksection = update_one(@, call.id, updates).coll],
            Goto(call, "insert_inspection"))

(* mark_section, lines 142-150: the updates from the section loaded, update_one *)
mark_update_one(d, call, now) ==
    LET updates == mark_updates(call.section[1], call.payload, call.now, now)
    IN Step([d EXCEPT !.tracksection = update_one(@, call.id, updates).coll],
            Goto(call, "insert_inspection"))

(* mark_section, lines 151-160: insert_one of the inspection *)
mark_insert_inspection(d, call, now) ==
    LET insp == mark_inspection(call.id, call.payload, call.now, now)
    IN Step([d EXCEPT !.inspection = insert_one(@, new_id(@), insp)],
            Goto(call, IF call.payload.status = "faulty" THEN "insert_alert" ELSE "find_one"))

(* mark_section, lines 161-168: insert_one of the alert *)
mark_insert_alert(d, call) ==
    LET docs == mark_alerts(call.id, call.section[1], call.payload, call.now)
    IN Step([d EXCEPT !.alert = insert_all(@, docs)], Goto(call, "find_one"))

(* mark_section, lines 169-171: s = find_one(...); s.pop("_id") raises on None *)
mark_reload(d, call) ==
    LET s == find_one(d.tracksection, call.id)
    IN IF s = None THEN Step(d, Crash(call))
       ELSE Step(d, Return(call, 200, with_id(s[1], call.id)))

(* inspect, lines 176-178: section = find_one(...), 404 if None *)
inspect_find_one(d, payload) ==
    LET found == find_one(d.tracksection, payload.section_id)
        call == Call("inspect", payload.section_id, payload, "insert_inspection",
                     0, found, 0, << >>)
    IN IF ~is_valid(payload.section_id) THEN Step(d, Return(call, 400, "Invalid id"))
       ELSE IF found = None THEN Step(d, Return(call, 404, "Section not found"))
       ELSE Step(d, call)

(* inspect, lines 179-187: now, insert_one of the inspection *)
inspect_insert_inspection(d, call, now) ==
    LET insp == inspect_inspection(call.payload, now)
    IN Step([d EXCEPT !.inspection = insert_one(@, new_id(@), insp)],
            [Goto(call, "update_one") EXCEPT !.now = now])

(* inspect, lines 189-198 and 206: update_one; a safe inspection returns *)
inspect_update_one(d, call) ==
    LET updates == inspect_updates(call.section[1], call.payload, call.now)
        after == [d EXCEPT !.tracksection = update_one(@, call.id, updates).coll]
        created == with_id(inspect_inspection(call.payload, call.now), 0)
    IN IF call.payload.status = "faulty" THEN Step(after, Goto(call, "insert_alert"))
       ELSE Step(after, Return(call, 200, created))

(* faulty variant: the alert is raised for a repeated fault only *)
inspect_insert_alert_repeat(d, call) ==
    LET docs == IF call.section[1].status = "faulty"
                THEN inspect_alerts(call.section[1], call.payload, call.now)
                ELSE << >>
        created == with_id(inspect_inspection(call.payload, call.now), 0)
    IN Step([d EXCEPT !.alert = insert_all(@, docs)], Return(call, 200, created))

(* inspect, lines 199-206: insert_one of the alert, return *)
inspect_insert_alert(d, call) ==
    LET docs == inspect_alerts(call.section[1], call.payload, call.now)
        created == with_id(inspect_inspection(call.payload, call.now), 0)
    IN Step([d EXCEPT !.alert = insert_all(@, docs)], Return(call, 200, created))

(* update_section, lines 118-124: update_one, 404 when nothing matched *)
update_section_update_one(d, section_id, payload, now) ==
    LET updates == model_dump(payload)
        result == update_one(d.tracksection, section_id, stamp(updates, now))
        after == [d EXCEPT !.tracksection = result.coll]
        call == Call("update_section", section_id, payload, "find_one", now, None, 0, << >>)
    IN IF DOMAIN updates = {} THEN Step(d, Return(call, 200, [updated |-> FALSE]))
       ELSE IF ~is_valid(section_id) THEN Step(d, Return(call, 400, "Invalid id"))
       ELSE IF result.matched_count = 0 THEN Step(after, Return(call, 404, "Section not found"))
       ELSE Step(after, call)

(* update_section, lines 125-127: s = find_one(...); s.pop("_id") raises on None *)
update_section_reload(d, call) ==
    LET s == find_one(d.tracksection, call.id)
    IN IF s = None THEN Step(d, Crash(call))
       ELSE Step(d, Return(call, 200, with_id(s[1], call.id)))

(* delete_section is one store operation *)
delete_section_call(d, section_id) ==
    LET r == delete_section(d, section_id)
    IN Step(r.db, Return(Call("delete_section", section_id, << >>, "done", 0, None, 0, << >>),
                         r.code, r.body))

(* summary, lines 236-240: one count_documents after the other *)
summary_count_total(d) ==
    Step(d, Call("summary", InvalidId, << >>, "count_safe", 0, None, 0,
                 [total |-> count_documents(d.tracksection, << >>)]))

summary_count_safe(d, call) ==
    LET safe == count_documents(d.tracksection, [status |-> [op |-> "$eq", value |-> "safe"]])
    IN Step(d, [Goto(call, "count_faulty") EXCEPT !.body = [safe |-> safe] @@ @])

summary_count_faulty(d, call) ==
    LET faulty == count_documents(d.tracksection, [status |-> [op |-> "$eq", value |-> "faulty"]])
    IN Step(d, [Goto(call, "count_critical") EXCEPT !.body = [faulty |-> faulty] @@ @])

summary_count_critical(d, call) ==
    LET critical == count_documents(d.tracksection,
                        [persistent_faults |-> [op |-> "$gte", value |-> CriticalThreshold]])
    IN Step(d, Return(call, 200, [critical |-> critical] @@ call.body))

(* The store the requests meet: one section, created and then marked       *)
(* faulty a number of times, one request per tick, the last as the clock   *)
(* reached 0.  pre keeps that store.                                       *)
RaceSeedPlans == [faulty : 0..MaxRaceSeedMarks, safe : {FALSE}]

InitRace ==
    \E plans \in [1..1 -> RaceSeedPlans] :
        /\ db = seeded(plans, 1, 0 - seed_calls(plans, 1))
        /\ pre = seeded(plans, 1, 0 - seed_calls(plans, 1))
        /\ nextId = 2
        /\ clock = 0
        /\ last = [op |-> "none", id |-> InvalidId, payload |-> << >>, code |-> 0, body |-> << >>]
        /\ calls = << >>

(* the patches sent while observations are in flight set the status *)
RacePatches ==
    {payload \in SectionUpdate : payload.status # None /\ payload.name = None
                                  /\ payload.color_faulty = None}

(* a request arrives and its handler runs up to its first store operation *)
Received(r) ==
    /\ clock < MaxCalls
    /\ calls' = Append(calls, r.call)
    /\ db' = r.db
    /\ clock' = clock + 1
    /\ UNCHANGED <<nextId, last, pre>>

(* the handler of request i runs its next store operation *)
Stepped(i, r) ==
    /\ calls' = [calls EXCEPT ![i] = r.call]
    /\ db' = r.db
    /\ UNCHANGED <<nextId, clock, last, pre>>

At(i, op, pc) == calls[i].op = op /\ calls[i].pc = pc

MarkFindOne ==
    \E section_id \in DOMAIN pre.tracksection, payload \in MarkPayload :
        Received(mark_find_one(db, section_id, payload, clock))

MarkUpdateOne ==
    \E i \in DOMAIN calls :
        At(i, "mark_section", "update_one") /\ Stepped(i, mark_update_one(db, calls[i], clock))

MarkInsertInspection ==
    \E i \in DOMAIN calls :
        /\ At(i, "mark_section", "insert_inspection")
        /\ Stepped(i, mark_insert_inspection(db, calls[i], clock))

MarkInsertAlert ==
    \E i \in DOMAIN calls :
        At(i, "mark_section", "insert_alert") /\ Stepped(i, mark_insert_alert(db, calls[i]))

MarkReload ==
    \E i \in DOMAIN calls :
        At(i, "mark_section", "find_one") /\ Stepped(i, mark_reload(db, calls[i]))

InspectFindOne ==
    \E section_id \in DOMAIN pre.tracksection, status \in Statuses :
        Received(inspect_find_one(db, [section_id |-> section_id, status |-> status,
                                       detail |-> None]))

InspectInsertInspection ==
    \E i \in DOMAIN calls :
        /\ At(i, "inspect", "insert_inspection")
        /\ Stepped(i, inspect_insert_inspection(db, calls[i], clock))

InspectUpdateOne ==
    \E i \in DOMAIN calls :
        At(i, "inspect", "update_one") /\ Stepped(i, inspect_update_one(db, calls[i]))

InspectInsertAlert ==
    \E i \in DOMAIN calls :
        At(i, "inspect", "insert_alert") /\ Stepped(i, inspect_insert_alert(db, calls[i]))

UpdateSectionUpdateOne ==
    \E section_id \in DOMAIN pre.tracksection, payload \in RacePatches :
        Received(update_section_update_one(db, section_id, payload, clock))

UpdateSectionReload ==
    \E i \in DOMAIN calls :
        At(i, "update_section", "find_one") /\ Stepped(i, update_section_reload(db, calls[i]))

DeleteSectionCall ==
    \E section_id \in DOMAIN pre.tracksection :
        Received(delete_section_call(db, section_id))

NextRace ==
    \/ MarkFindOne
    \/ MarkUpdateOne
    \/ MarkInsertInspection
    \/ MarkInsertAlert
    \/ MarkReload
    \/ InspectFindOne
    \/ InspectInsertInspection
    \/ InspectUpdateOne
    \/ InspectInsertAlert
    \/ UpdateSectionUpdateOne
    \/ UpdateSectionReload
    \/ DeleteSectionCall

SpecRace == InitRace /\ [][NextRace]_vars

(* The same, met by an observation already in flight: it arrived a tick    *)
(* earlier, has read the section and has written nothing yet.              *)
InitStale ==
    \E plans \in [1..1 -> RaceSeedPlans] :
        LET d == seeded(plans, 1, 0 - seed_calls(plans, 1) - 1)
        IN \E r \in {mark_find_one(d, 1, payload, 0 - 1) : payload \in MarkPayload}
                    \cup {inspect_find_one(d, [section_id |-> 1, status |-> status,
                                                detail |-> None]) : status \in Statuses} :
              /\ db = r.db
              /\ pre = r.db
              /\ nextId = 2
              /\ clock = 0
              /\ last = [op |-> "none", id |-> InvalidId, payload |-> << >>,
                         code |-> 0, body |-> << >>]
              /\ calls = <<r.call>>

SpecStale == InitStale /\ [][NextRace]_vars

(* summary() in flight while the other handlers serve requests.  Each of   *)
(* those writes the sections in one store operation, so it is served as a  *)
(* whole between two counts.                                               *)
SummaryCountTotal ==
    /\ Len(calls) < MaxSummaries
    /\ clock < MaxClock
    /\ calls' = Append(calls, summary_count_total(db).call)
    /\ clock' = clock + 1
    /\ UNCHANGED <<db, nextId, last, pre>>

SummaryCountSafe ==
    \E i \in DOMAIN calls :
        At(i, "summary", "count_safe") /\ Stepped(i, summary_count_safe(db, calls[i]))

SummaryCountFaulty ==
    \E i \in DOMAIN calls :
        At(i, "summary", "count_faulty") /\ Stepped(i, summary_count_faulty(db, calls[i]))

SummaryCountCritical ==
    \E i \in DOMAIN calls :
        At(i, "summary", "count_critical") /\ Stepped(i, summary_count_critical(db, calls[i]))

NextCount ==
    \/ CreateSection
    \/ UpdateSection
    \/ DeleteSection
    \/ MarkSection
    \/ Inspect
    \/ SummaryCountTotal
    \/ SummaryCountSafe
    \/ SummaryCountFaulty
    \/ SummaryCountCritical

SpecCount == Init /\ [][NextCount]_vars

----------------------------------------------------------------------------
(* Vocabulary of the properties.  recordObservation is mark_section or     *)
(* inspect; the section it targets is last.id, the observed status         *)
(* last.payload.status.                                                    *)

IsObservation == last.op \in {"mark_section", "inspect"}
Succeeded == last.code \in {200, 201}
NotFound == last.code = 404
Observed == last.payload.status
SectionBefore == pre.tracksection[last.id]
SectionAfter == db.tracksection[last.id]
MatchesNoSection == is_valid(last.id) /\ last.id \notin DOMAIN pre.tracksection
Count(coll) == Cardinality(DOMAIN coll)

(* C1: a recordObservation call never decreases the persistent_faults of   *)
(* any section: every section the store held when the call arrived is      *)
(* still there with a persistent_faults at least as large.                 *)
C1_FaultsNeverDecrease ==
    IsObservation =>
        \A id \in DOMAIN pre.tracksection :
            /\ id \in DOMAIN db.tracksection
            /\ db.tracksection[id].persistent_faults >= pre.tracksection[id].persistent_faults

(* a repeated fault on a section that already had persistent faults *)
C1_Witness ==
    /\ IsObservation /\ Succeeded
    /\ SectionBefore.persistent_faults >= 1
    /\ SectionAfter.persistent_faults = SectionBefore.persistent_faults + 1

(* C3: a completed recordObservation with observed status faulty appends   *)
(* exactly one Alert, for that section, unacknowledged, of severity high,  *)
(* and leaves every earlier Alert as it was; with observed status safe the *)
(* alerts are unchanged.                                                   *)
C3_OneAlertPerFault ==
    (IsObservation /\ Succeeded) =>
        IF Observed = "faulty"
        THEN /\ DOMAIN db.alert = 1..(Count(pre.alert) + 1)
             /\ \A i \in DOMAIN pre.alert : db.alert[i] = pre.alert[i]
             /\ db.alert[Count(pre.alert) + 1].section_id = last.id
             /\ db.alert[Count(pre.alert) + 1].acknowledged = FALSE
             /\ db.alert[Count(pre.alert) + 1].severity = "high"
        ELSE db.alert = pre.alert

(* a faulty observation arriving when an acknowledged alert already exists *)
C3_Witness ==
    /\ IsObservation /\ Succeeded /\ Observed = "faulty"
    /\ \E i \in DOMAIN pre.alert : pre.alert[i].acknowledged
    /\ Count(db.alert) = Count(pre.alert) + 1

(* C4: a safe observation of a faulty section sets its status to safe,     *)
(* keeps persistent_faults as it was and creates no Alert.                 *)
C4_SafeAfterFaulty ==
    (IsObservation /\ Succeeded /\ Observed = "safe" /\ SectionBefore.status = "faulty") =>
        /\ SectionAfter.status = "safe"
        /\ SectionAfter.persistent_faults = SectionBefore.persistent_faults
        /\ db.alert = pre.alert

(* a safe observation of a faulty section that has persistent faults *)
C4_Witness ==
    /\ IsObservation /\ Succeeded /\ Observed = "safe"
    /\ SectionBefore.status = "faulty"
    /\ SectionBefore.persistent_faults >= 1
    /\ SectionAfter.status = "safe"

(* C5: recordObservation with a well-formed id that matches no section      *)
(* answers 404 and leaves the whole store as it was.                        *)
C5_MissingSectionNoWrite ==
    (IsObservation /\ MatchesNoSection) => (NotFound /\ db = pre)

(* an observation of a missing section arriving at a store that holds      *)
(* sections and inspections                                                 *)
C5_Witness ==
    /\ IsObservation /\ MatchesNoSection /\ NotFound
    /\ DOMAIN pre.tracksection # {}
    /\ Count(pre.inspection) >= 1

(* C2 as stated: two successful faulty observations of the same section in *)
(* immediate succession leave persistent_faults one above its value before *)
(* the first of them, whatever the section's status was, and add two       *)
(* Inspection records.                                                     *)
FaultyObservation(l) ==
    /\ l.op \in {"mark_section", "inspect"}
    /\ l.code \in {200, 201}
    /\ l.payload.status = "faulty"

SecondFaultyObservation ==
    /\ clock' = clock + 1
    /\ FaultyObservation(last)
    /\ FaultyObservation(last')
    /\ last'.id = last.id

C2_IncrementedOnce ==
    [][SecondFaultyObservation =>
          /\ db'.tracksection[last.id].persistent_faults
               = pre.tracksection[last.id].persistent_faults + 1
          /\ Count(db'.inspection) = Count(pre.inspection) + 2]_vars

(* C2 amended: the two observations leave persistent_faults one above its  *)
(* prior value when the section was safe before the first of them and two  *)
(* above when it was already faulty; two Inspection records are added.     *)
C2_IncrementedPerRepeat ==
    [][SecondFaultyObservation =>
          /\ db'.tracksection[last.id].persistent_faults
               = pre.tracksection[last.id].persistent_faults
                 + (IF pre.tracksection[last.id].status = "faulty" THEN 2 ELSE 1)
          /\ Count(db'.inspection) = Count(pre.inspection) + 2]_vars

(* the third request served is the second of two faulty observations of a  *)
(* section that was created safe                                           *)
C2_Witness ==
    /\ clock = 3
    /\ FaultyObservation(last)
    /\ Count(db.inspection) = 2
    /\ \A i \in DOMAIN db.inspection :
         db.inspection[i].section_id = last.id /\ db.inspection[i].status = "faulty"
    /\ SectionAfter.persistent_faults = 1

(* C6: update_section with a status field on an existing section sets the  *)
(* status to the given value and leaves persistent_faults, last_check, the *)
(* inspections and the alerts as they were.                                *)
IsPatch == last.op = "update_section"

C6_PatchBypassesAccumulation ==
    (IsPatch /\ last.payload.status # None /\ last.id \in DOMAIN pre.tracksection) =>
        /\ Succeeded
        /\ SectionAfter.status = last.payload.status[1]
        /\ SectionAfter.persistent_faults = SectionBefore.persistent_faults
        /\ SectionAfter.last_check = SectionBefore.last_check
        /\ db.inspection = pre.inspection
        /\ db.alert = pre.alert

(* faulty patched onto a faulty section that has persistent faults *)
C6_Witness ==
    /\ IsPatch /\ Succeeded
    /\ last.payload.status = Some("faulty")
    /\ last.id \in DOMAIN pre.tracksection
    /\ SectionBefore.status = "faulty"
    /\ SectionBefore.persistent_faults >= 1
    /\ SectionAfter.status = "faulty"

(* C7 as stated: update_section with a well-formed id that matches no      *)
(* section answers 404 and leaves the store as it was, whatever fields the *)
(* patch sets.                                                             *)
C7_PatchMissingIsNotFound ==
    (IsPatch /\ MatchesNoSection) => (NotFound /\ db = pre)

(* C7 amended: with at least one field set, update_section with a          *)
(* well-formed id that matches no section answers 404 and leaves the store *)
(* as it was; with no field set it answers 200 {"updated": false} and      *)
(* leaves the store as it was, the id not being looked up.                 *)
EmptyPatch == \A f \in DOMAIN last.payload : last.payload[f] = None

C7_NonEmptyPatchMissingIsNotFound ==
    /\ (IsPatch /\ MatchesNoSection /\ ~EmptyPatch) => (NotFound /\ db = pre)
    /\ (IsPatch /\ EmptyPatch) =>
          (last.code = 200 /\ last.body = [updated |-> FALSE] /\ db = pre)

(* a patch that sets a field, for a section deleted from a store that      *)
(* still holds other documents                                             *)
C7_Witness ==
    /\ IsPatch /\ MatchesNoSection /\ ~EmptyPatch /\ NotFound
    /\ Count(pre.tracksection) + Count(pre.inspection) >= 1

(* C8: ack_alert on an existing alert answers 200 and sets acknowledged,   *)
(* the alert being otherwise unchanged, also when it was acknowledged      *)
(* already (the store is then exactly as before); on a well-formed id that *)
(* matches no alert it answers 404; in every case all other alerts, the    *)
(* sections and the inspections are as they were.                          *)
IsAck == last.op = "ack_alert"

C8_Acknowledge ==
    IsAck =>
        /\ db.tracksection = pre.tracksection
        /\ db.inspection = pre.inspection
        /\ DOMAIN db.alert = DOMAIN pre.alert
        /\ \A i \in DOMAIN pre.alert : i # last.id => db.alert[i] = pre.alert[i]
        /\ IF last.id \in DOMAIN pre.alert
           THEN /\ Succeeded
                /\ db.alert[last.id] = [pre.alert[last.id] EXCEPT !.acknowledged = TRUE]
                /\ pre.alert[last.id].acknowledged => db = pre
           ELSE /\ db = pre
                /\ is_valid(last.id) => NotFound

(* an acknowledged alert acknowledged again *)
C8_Witness ==
    /\ IsAck /\ Succeeded
    /\ last.id \in DOMAIN pre.alert
    /\ pre.alert[last.id].acknowledged
    /\ db.alert[last.id].acknowledged

(* C10: delete_section on an existing section removes that section and     *)
(* nothing else: the other sections, every Inspection and every Alert are  *)
(* as they were; on a well-formed id that matches no section it answers    *)
(* 404 and leaves the store as it was.                                     *)
IsDelete == last.op = "delete_section"

C10_DeleteDoesNotCascade ==
    IsDelete =>
        /\ db.inspection = pre.inspection
        /\ db.alert = pre.alert
        /\ IF last.id \in DOMAIN pre.tracksection
           THEN /\ Succeeded
                /\ DOMAIN db.tracksection = DOMAIN pre.tracksection \ {last.id}
                /\ \A id \in DOMAIN db.tracksection : db.tracksection[id] = pre.tracksection[id]
           ELSE /\ db = pre
                /\ is_valid(last.id) => NotFound

(* a section deleted while an Inspection and an Alert refer to it and      *)
(* another section exists                                                  *)
C10_Witness ==
    /\ IsDelete /\ Succeeded
    /\ last.id \notin DOMAIN db.tracksection
    /\ DOMAIN db.tracksection # {}
    /\ \E i \in DOMAIN db.inspection : db.inspection[i].section_id = last.id
    /\ \E i \in DOMAIN db.alert : db.alert[i].section_id = last.id

(* C9: summary answers with the number of sections, the number whose       *)
(* status is safe, the number whose status is faulty and the number whose  *)
(* persistent_faults is 3 or more whatever their status, and writes        *)
(* nothing.                                                                *)
IsSummary == last.op = "summary"

C9_SummaryCounts ==
    IsSummary =>
        /\ db = pre
        /\ last.body.total = Cardinality(DOMAIN pre.tracksection)
        /\ last.body.safe =
             Cardinality({id \in DOMAIN pre.tracksection : pre.tracksection[id].status = "safe"})
        /\ last.body.faulty =
             Cardinality({id \in DOMAIN pre.tracksection : pre.tracksection[id].status = "faulty"})
        /\ last.body.critical =
             Cardinality({id \in DOMAIN pre.tracksection :
                              pre.tracksection[id].persistent_faults >= 3})

(* two safe sections and one faulty section with persistent_faults = 3 *)
C9_Witness ==
    /\ IsSummary
    /\ last.body = [total |-> 3, safe |-> 2, faulty |-> 1, critical |-> 1]
    /\ \E id \in DOMAIN pre.tracksection :
         /\ pre.tracksection[id].status = "faulty"
         /\ pre.tracksection[id].persistent_faults = 3

(* Vocabulary for the requests in flight *)

IsObservationCall(c) == c.op \in {"mark_section", "inspect"}

Done(c) == c.pc = "done"

Idle == \A i \in DOMAIN calls : Done(calls[i])

(* the request has passed its insert_one into inspection *)
InspectionInserted(c) ==
    \/ c.op = "mark_section" /\ (c.pc \in {"insert_alert", "find_one"} \/ c.code \in {200, 500})
    \/ c.op = "inspect" /\ (c.pc \in {"update_one", "insert_alert"} \/ c.code = 200)

(* the request has passed its update_one of the section *)
SectionWritten(c) ==
    \/ c.op = "mark_section"
         /\ (c.pc \in {"insert_inspection", "insert_alert", "find_one"} \/ c.code \in {200, 500})
    \/ c.op = "inspect" /\ (c.pc = "insert_alert" \/ c.code = 200)

(* the request has not written to the store *)
WroteNothing(c) ==
    \/ c.code \in {400, 404}
    \/ c.op = "mark_section" /\ c.pc = "update_one"
    \/ c.op = "inspect" /\ c.pc = "insert_inspection"

FaultyInspections(d, section_id) ==
    Cardinality({k \in DOMAIN d.inspection :
                    d.inspection[k].section_id = section_id /\ d.inspection[k].status = "faulty"})

InspectionsOf(d, section_id) ==
    Cardinality({k \in DOMAIN d.inspection : d.inspection[k].section_id = section_id})

AlertsOf(d, section_id) ==
    Cardinality({k \in DOMAIN d.alert : d.alert[k].section_id = section_id})

(* the section ids the store knows of *)
SectionIds(d) ==
    DOMAIN d.tracksection
      \cup {d.inspection[k].section_id : k \in DOMAIN d.inspection}
      \cup {d.alert[k].section_id : k \in DOMAIN d.alert}

(* a patch has set the status of the section *)
StatusPatched(section_id) ==
    \E i \in DOMAIN calls :
        /\ calls[i].op = "update_section" /\ calls[i].id = section_id
        /\ calls[i].payload.status # None
        /\ ~WroteNothing(calls[i])

(* two faulty observations of one section that both read it, as it was     *)
(* before any request and already faulty, and have both returned, every    *)
(* other request having written nothing                                    *)
Raced(p, q) ==
    /\ p # q
    /\ IsObservationCall(calls[p]) /\ IsObservationCall(calls[q])
    /\ calls[p].id = calls[q].id
    /\ calls[p].payload.status = "faulty" /\ calls[q].payload.status = "faulty"
    /\ calls[p].section = Some(pre.tracksection[calls[p].id])
    /\ calls[q].section = Some(pre.tracksection[calls[p].id])
    /\ pre.tracksection[calls[p].id].status = "faulty"
    /\ calls[p].code = 200 /\ calls[q].code = 200
    /\ \A r \in DOMAIN calls \ {p, q} : WroteNothing(calls[r])

(* C11: mark_section and inspect apply the same transition.  A successful  *)
(* observation leaves the section with the observed status and with        *)
(* persistent_faults one above the value read when the section was faulty  *)
(* and is observed faulty, unchanged otherwise; and from any store, for    *)
(* any section and observed status, the two handlers leave the same status *)
(* and persistent_faults.                                                  *)
C11_SameTransition ==
    /\ (IsObservation /\ Succeeded) =>
          /\ SectionAfter.status = Observed
          /\ SectionAfter.persistent_faults =
                SectionBefore.persistent_faults
                + (IF SectionBefore.status = "faulty" /\ Observed = "faulty" THEN 1 ELSE 0)
    /\ \A id \in DOMAIN db.tracksection : \A o \in Statuses :
          LET marked == mark_section(db, id, [status |-> o], clock, clock, clock).db.tracksection[id]
              inspected == inspect(db, [section_id |-> id, status |-> o, detail |-> None],
                                   clock).db.tracksection[id]
          IN /\ marked.status = inspected.status
             /\ marked.persistent_faults = inspected.persistent_faults

(* an inspection reporting a fault on a section already faulty *)
C11_Witness ==
    /\ last.op = "inspect" /\ Succeeded /\ Observed = "faulty"
    /\ SectionBefore.status = "faulty"
    /\ SectionAfter.persistent_faults = SectionBefore.persistent_faults + 1

(* C12: a recordObservation call writes the section update before it      *)
(* inserts its Inspection (and that before its Alert): a call that has     *)
(* inserted its Inspection has written its update, and while it is the     *)
(* only request the section carries the observed status from then on.      *)
C12_UpdateBeforeInspection ==
    \A i \in DOMAIN calls :
        (IsObservationCall(calls[i]) /\ InspectionInserted(calls[i])) =>
            /\ SectionWritten(calls[i])
            /\ Len(calls) = 1 => db.tracksection[calls[i].id].status = calls[i].payload.status

(* C13: two faulty observations of an already faulty section that both     *)
(* read it before either wrote both complete, with two Inspections and two *)
(* Alerts inserted, and leave persistent_faults one above the value        *)
(* before, not two: one update is lost.                                    *)
C13_LostUpdate ==
    \A p, q \in DOMAIN calls :
        Raced(p, q) =>
            LET id == calls[p].id
            IN /\ id \in DOMAIN db.tracksection
               /\ db.tracksection[id].persistent_faults
                    = pre.tracksection[id].persistent_faults + 1
               /\ InspectionsOf(db, id) = InspectionsOf(pre, id) + 2
               /\ AlertsOf(db, id) = AlertsOf(pre, id) + 2

(* a mark_section and an inspect that raced on a section found faulty for  *)
(* the first time *)
C13_Witness ==
    \E p, q \in DOMAIN calls :
        /\ Raced(p, q)
        /\ calls[p].op = "mark_section" /\ calls[q].op = "inspect"
        /\ pre.tracksection[calls[p].id].persistent_faults = 0
        /\ db.tracksection[calls[p].id].persistent_faults = 1

(* C14: an Alert is never removed, and it changes only in a step of        *)
(* ack_alert on that alert, from unacknowledged to acknowledged, nothing   *)
(* else of it changing; so an acknowledged alert stays acknowledged.       *)
C14_AlertsOnlyAcknowledged ==
    [][\A i \in DOMAIN db.alert :
          /\ i \in DOMAIN db'.alert
          /\ db'.alert[i] # db.alert[i] =>
                /\ last'.op = "ack_alert" /\ last'.id = i
                /\ ~db.alert[i].acknowledged
                /\ db'.alert[i] = [db.alert[i] EXCEPT !.acknowledged = TRUE]]_vars

(* a safe observation of a section that has an acknowledged alert *)
C14_Witness ==
    /\ IsObservation /\ Succeeded /\ Observed = "safe"
    /\ \E i \in DOMAIN db.alert :
         db.alert[i].section_id = last.id /\ db.alert[i].acknowledged

(* C15: the Inspection records are append-only.  Every request leaves the  *)
(* records that existed as they were; a successful mark_section or inspect *)
(* adds exactly one, with the observed status and the target section, and  *)
(* every other request adds none.                                          *)
C15_InspectionsAppendOnly ==
    /\ \A i \in DOMAIN pre.inspection :
          i \in DOMAIN db.inspection /\ db.inspection[i] = pre.inspection[i]
    /\ IF IsObservation /\ Succeeded
       THEN /\ DOMAIN db.inspection = 1..(Count(pre.inspection) + 1)
            /\ db.inspection[Count(pre.inspection) + 1].status = Observed
            /\ db.inspection[Count(pre.inspection) + 1].section_id = last.id
       ELSE db.inspection = pre.inspection

(* a third Inspection recorded, of another status than the second *)
C15_Witness ==
    /\ IsObservation /\ Succeeded
    /\ Count(db.inspection) = 3
    /\ db.inspection[3].status # db.inspection[2].status

(* C16: the stored persistent_faults of a section never decreases, also    *)
(* when the store operations of three or more requests interleave and a    *)
(* request that read the section early writes last.                        *)
C16_FaultsNeverDecreaseInFlight ==
    [][\A id \in DOMAIN db.tracksection \cap DOMAIN db'.tracksection :
          db'.tracksection[id].persistent_faults >= db.tracksection[id].persistent_faults]_vars

(* C17: when no request is in flight, every section id has as many Alerts  *)
(* as faulty Inspections, and a section whose status no patch has set has  *)
(* persistent_faults at most that number less one when the number is       *)
(* positive, and zero otherwise.                                           *)
C17_AlertsMatchFaultyInspections ==
    Idle =>
        \A id \in SectionIds(db) :
            /\ AlertsOf(db, id) = FaultyInspections(db, id)
            /\ (id \in DOMAIN db.tracksection /\ ~StatusPatched(id)) =>
                  IF FaultyInspections(db, id) > 0
                  THEN db.tracksection[id].persistent_faults <= FaultyInspections(db, id) - 1
                  ELSE db.tracksection[id].persistent_faults = 0

(* two faulty observations have returned and the counter is two below the  *)
(* number of faulty Inspections: an update was lost                        *)
C17_Witness ==
    /\ Idle
    /\ \E id \in DOMAIN db.tracksection :
         /\ ~StatusPatched(id)
         /\ FaultyInspections(db, id) = 3
         /\ db.tracksection[id].persistent_faults = 1
         /\ \E i \in DOMAIN calls : calls[i].op = "inspect" /\ calls[i].code = 200

(* C18: an Inspection or an Alert is inserted only for a section that      *)
(* exists when it is inserted, and a mark_section that has passed its      *)
(* existence check completes by returning the section, also when a         *)
(* delete_section interleaves.                                             *)
C18_InsertsOnlyForExistingSection ==
    [][/\ \A k \in DOMAIN db'.inspection \ DOMAIN db.inspection :
             db'.inspection[k].section_id \in DOMAIN db.tracksection
       /\ \A k \in DOMAIN db'.alert \ DOMAIN db.alert :
             db'.alert[k].section_id \in DOMAIN db.tracksection
       /\ \A i \in DOMAIN calls' :
             (calls'[i].op = "mark_section" /\ calls'[i].section # None /\ Done(calls'[i])) =>
                /\ calls'[i].code = 200
                /\ calls'[i].body.id = calls'[i].id]_vars

(* C19: every result of summary has total = safe + faulty and              *)
(* critical <= total, also when sections are created, deleted, marked,     *)
(* inspected or patched between its four counts.                           *)
C19_SummaryConsistent ==
    \A i \in DOMAIN calls :
        (calls[i].op = "summary" /\ Done(calls[i])) =>
            /\ calls[i].body.total = calls[i].body.safe + calls[i].body.faulty
            /\ calls[i].body.critical <= calls[i].body.total

====
